---- MODULE Spec2Model ----
(***************************************************************************)
(* A model of album-club-bot: the spreadsheet-backed album selection       *)
(* (src/src/albums.rs) and the prefetch slot, background tasks and reviewer *)
(* queue driven by the chat commands (src/src/main.rs).                     *)
(*                                                                         *)
(* Strings are sequences of character codes, so that to_lowercase is       *)
(* computed and not assumed.  A sheet row is a sequence of cell strings; a  *)
(* row of fewer than four cells is a malformed album row.                   *)
(***************************************************************************)
EXTENDS Integers, Sequences, FiniteSets, Bags, TLC

\* ------------------------------------------------------------------------
\* Bounds of the model
\* ------------------------------------------------------------------------
\* background tasks (spawned by get_next_album) alive at the same time
MaxTasks == 2
\* rows the rotation column may hold (appends are not offered beyond it)
MaxRotation == 3
\* concurrent reviewer commands
MaxCallers == 2
\* rows of the catalogs the selection is tried on
MaxCatalog == 2

\* ------------------------------------------------------------------------
\* Strings
\* ------------------------------------------------------------------------
amy   == <<97, 109, 121>>
Amy   == <<65, 109, 121>>
amySp == <<97, 109, 121, 32>>
bob   == <<98, 111, 98>>
carl  == <<99, 97, 114, 108>>
rock  == <<114, 111, 99, 107>>
Rock  == <<82, 111, 99, 107>>
jazz  == <<106, 97, 122, 122>>
blues == <<98, 108, 117, 101, 115>>
tA    == <<65>>
tB    == <<66>>
tC    == <<67>>
tX    == <<88>>
tY    == <<89>>
tZ    == <<90>>

\* the lower case of a character: A-Z, and the capitals of Latin-1
LowerChar(c) ==
  IF (c >= 65 /\ c <= 90) \/ (c >= 192 /\ c <= 222 /\ c # 215) THEN c + 32 ELSE c

\* a to_lowercase that drops a trailing blank first
to_lowercase_trimmed(s) ==
  LET t == IF Len(s) > 0 /\ s[Len(s)] = 32 THEN SubSeq(s, 1, Len(s) - 1) ELSE s
  IN  [i \in 1..Len(t) |-> LowerChar(t[i])]

to_lowercase(s) == [i \in 1..Len(s) |-> LowerChar(s[i])]

SeqToSet(s) == {s[i] : i \in 1..Len(s)}

\* ------------------------------------------------------------------------
\* Albums
\* ------------------------------------------------------------------------
NoAlbum == [name |-> <<>>, artist |-> <<>>, genre |-> <<>>, added_by |-> <<>>, row |-> -1]

\* an album_from_vec that reads a missing cell as an empty string
album_from_vec_padding(values, row) ==
  LET cell(k) == IF k <= Len(values) THEN values[k] ELSE <<>>
  IN  [ok |-> TRUE, err |-> "",
       album |-> [name |-> cell(2), artist |-> cell(1), genre |-> cell(3),
                  added_by |-> cell(4), row |-> row]]

album_from_vec(values, row) ==
  IF Len(values) = 0 THEN [ok |-> FALSE, err |-> "No albums found", album |-> NoAlbum]
  ELSE IF Len(values) < 2 THEN [ok |-> FALSE, err |-> "Unable to get album name", album |-> NoAlbum]
  ELSE IF Len(values) < 3 THEN [ok |-> FALSE, err |-> "Unable to get album genre", album |-> NoAlbum]
  ELSE IF Len(values) < 4 THEN [ok |-> FALSE, err |-> "Unable to get album added_by", album |-> NoAlbum]
  ELSE [ok |-> TRUE, err |-> "",
        album |-> [name |-> values[2], artist |-> values[1], genre |-> values[3],
                   added_by |-> values[4], row |-> row]]

\* the reading of a column range into a HashSet
get_column_strings_as_hashset(col) == SeqToSet(col)

\* Ratings!C2:D2 of the current row: the last genre and who added it
get_last_genre_and_added_by(cur) ==
  LET row == IF Len(cur) >= 3 THEN SubSeq(cur, 3, Len(cur)) ELSE <<>>
  IN  IF Len(row) < 2
      THEN [ok |-> FALSE, genre |-> <<>>, added_by |-> <<>>]
      ELSE [ok |-> TRUE, genre |-> row[1], added_by |-> row[2]]

\* keep_album comparing the strings as they stand
keep_album_exact_case(album, rotation, last_genre, last_added_by) ==
  /\ album.added_by \notin rotation
  /\ album.added_by # last_added_by
  /\ album.genre # last_genre

keep_album(album, rotation, last_genre, last_added_by) ==
  /\ album.added_by \notin rotation
  /\ to_lowercase(album.added_by) # to_lowercase(last_added_by)
  /\ to_lowercase(album.genre) # to_lowercase(last_genre)

RECURSIVE filter_albums(_, _, _, _, _, _)
filter_albums(spreadsheet, i, filtered_albums, rotation, last_genre, last_added_by) ==
  IF i >= Len(spreadsheet)
  THEN [ok |-> TRUE, albums |-> filtered_albums]
  ELSE LET r == album_from_vec(spreadsheet[i + 1], i)
       IN  IF ~r.ok
           THEN [ok |-> FALSE, albums |-> <<>>]
           ELSE filter_albums(spreadsheet, i + 1,
                              IF keep_album(r.album, rotation, last_genre, last_added_by)
                              THEN Append(filtered_albums, r.album)
                              ELSE filtered_albums,
                              rotation, last_genre, last_added_by)

\* the outcomes select_random_album can produce: an error of album_from_vec,
\* the panic of gen_range(0..0), or any one of the filtered albums
select_random_album(spreadsheet, rotation, last_genre, last_added_by) ==
  LET f == filter_albums(spreadsheet, 0, <<>>, rotation, last_genre, last_added_by)
      row_count == Len(f.albums)
  IN  IF ~f.ok THEN {[kind |-> "Err", album |-> NoAlbum]}
      ELSE IF row_count = 0 THEN {[kind |-> "Panic", album |-> NoAlbum]}
      ELSE {[kind |-> "Ok", album |-> f.albums[num + 1]] : num \in 0..(row_count - 1)}


\* eligible_reviewers without the filter
eligible_reviewers_unfiltered(names, added_by) == names

\* .into_iter().filter(|name| name != &current_album.added_by)
eligible_reviewers(names, added_by) == {name \in names : name # added_by}

\* the orders a HashSet can be collected in, or a Vec shuffled into
Orders(S) == {q \in [1..Cardinality(S) -> S] : \A i, j \in 1..Cardinality(S) :
                                                  q[i] = q[j] => i = j}

\* remove_0 reading the front and leaving it queued
remove_0_kept(q) == [front |-> Head(q), rest |-> q]

\* lock.remove(0) of a non-empty queue
remove_0(q) == [front |-> Head(q), rest |-> Tail(q)]

\* is_full_rotation asking for the two sets to be equal
is_full_rotation_equal(rotation, names) == rotation = names

is_full_rotation(rotation, names) == \A name \in names : name \in rotation

\* added_by_of taking the neighbouring field
added_by_of_artist(album) == album.artist

\* the contributor get_next_album hands to add_name_to_rotation
added_by_of(album) == album.added_by

\* ------------------------------------------------------------------------
\* Sheet contents the model starts from
\* ------------------------------------------------------------------------
Catalogs ==
  { << <<tX, tA, rock, bob>>, <<tY, tB, jazz, amy>> >>,
    << <<tX, tA, rock, bob>>, <<tY, tB, jazz>> >>,
    << >> }

Rosters == { <<amy, bob>>, <<amy>> }

Currents == { <<tZ, tC, blues, carl>>, <<tZ, tC, rock, bob>>, <<tZ, tC>> }

\* the contents the reviewer commands are tried on
RevCatalogs == { << <<tX, tA, blues, carl>> >> }

RevRosters == { <<amy, bob, carl>>, <<amy, bob, amy>>, <<amy>> }

RevCurrents == { <<tZ, tC, rock, bob>>, <<tZ, tC, jazz, amy>>, <<tZ, tC>> }

\* the wider contents the selection alone is tried on
SelRows ==
  { <<tX, tA, rock, bob>>, <<tY, tB, jazz, amy>>, <<tZ, tC, Rock, Amy>>,
    <<tX, tB, jazz, amySp>>, <<tY, tB, jazz>>,
    << >> }

SelCatalogs == UNION {[1..n -> SelRows] : n \in 0..MaxCatalog}

SelRotations == { <<>>, <<amy>>, <<Amy>>, <<bob>>, <<amy, bob>> }

SelCurrents ==
  {<<tZ, tC, g, c>> : g \in {rock, jazz, blues}, c \in {carl, Amy, bob}} \cup {<<tZ, tC>>}

\* ------------------------------------------------------------------------
\* State
\* ------------------------------------------------------------------------
VARIABLES
  catalog,        \* sheet "Album Selection!A2:D": rows of cells
  rotation_col,   \* sheet "Rotation!A1:A10": the rotation column
  names_col,      \* sheet "Rotation!B1:B10": the roster column
  current,        \* sheet "Ratings!A2:D2": the row of the current album
  next_album,     \* AlbumHandler.next_album: Option<AlbumAndLink>
  main_pc,        \* where main() is
  startup,        \* main's call of set_next_album
  tasks,          \* the bag of the tasks spawned by get_next_album
  reply,          \* the reply of the last command
  nserved,        \* times the value now in next_album has been returned (2 = twice or more)
  persons,        \* GoogleSheetsAlbumRepo.persons: the reviewer queue
  lock_owner,     \* the caller holding the persons mutex, 0 when free
  callers,        \* reviewer commands in progress
  refill,         \* the last install of the queue: by which call, the contributor it
                  \* read, the names it installed, whether it discarded entries
  returned        \* names popped since the last install of the queue

store_vars == <<catalog, rotation_col, names_col, current>>
album_vars == <<next_album, main_pc, startup, tasks, nserved>>
reviewer_vars == <<persons, lock_owner, callers, refill, returned>>
vars == <<catalog, rotation_col, names_col, current, next_album, main_pc, startup, tasks,
          reply, nserved, persons, lock_owner, callers, refill, returned>>

Callers == 1..MaxCallers

NoneAlbum == [some |-> FALSE, album |-> NoAlbum, link |-> "None"]

\* the locals of a call of add_name_to_rotation followed by set_next_album
IdleTask == [pc |-> "idle", added_by |-> <<>>, rotation |-> {}, album |-> NoAlbum]

\* the locals of a reviewer command; overlapped records that another call
\* installed a refill while this one waited for the lock
IdleCaller == [pc |-> "idle", op |-> "none", added_by |-> <<>>, overlapped |-> FALSE]

NoReply == [kind |-> "none", name |-> <<>>]

NoRefill == [kind |-> "none", added_by |-> <<>>, installed |-> {}, discarded |-> FALSE]

Min(a, b) == IF a < b THEN a ELSE b

InitWith(cats, rots, rosters, currents) ==
  /\ catalog \in cats
  /\ rotation_col \in rots
  /\ names_col \in rosters
  /\ current \in currents
  /\ next_album = NoneAlbum
  /\ main_pc = "init"
  /\ startup = [IdleTask EXCEPT !.pc = "fetch_albums"]
  /\ tasks = EmptyBag
  /\ reply = NoReply
  /\ nserved = 0
  /\ persons = <<>>
  /\ lock_owner = 0
  /\ callers = [c \in Callers |-> IdleCaller]
  /\ refill = NoRefill
  /\ returned = <<>>

Init == InitWith(Catalogs, {<<>>}, Rosters, Currents)

\* ------------------------------------------------------------------------
\* Tasks.  who = "main" is main's own call of set_next_album, who = "task" a
\* task spawned by get_next_album, whose locals r are in the bag.
\* ------------------------------------------------------------------------
Live == BagToSet(tasks)

Replaced(r, r2) == (tasks (-) SetToBag({r})) (+) SetToBag({r2})

Update(who, r, r2) ==
  IF who = "main"
  THEN /\ startup' = r2
       /\ UNCHANGED <<tasks, main_pc>>
  ELSE /\ tasks' = Replaced(r, r2)
       /\ UNCHANGED <<startup, main_pc>>

\* The end of a call.  main returns the error of set_next_album ("failed")
\* or dies of a panic; a spawned task unwraps the error of
\* add_name_to_rotation ("unwrap_panic"), dies of the panic of the selection
\* ("range_panic"), prints the error of set_next_album ("failed") or
\* completes ("done")
EndPcs == {"done", "failed", "unwrap_panic", "range_panic"}

\* a main that goes on to the client whatever set_next_album returned
Exit_ignoring(who, r, kind) ==
  IF who = "main"
  THEN /\ startup' = [IdleTask EXCEPT !.pc = kind]
       /\ main_pc' = "client"
       /\ UNCHANGED tasks
  ELSE /\ tasks' = Replaced(r, [IdleTask EXCEPT !.pc = kind])
       /\ UNCHANGED <<startup, main_pc>>

Exit(who, r, kind) ==
  IF who = "main"
  THEN /\ startup' = [IdleTask EXCEPT !.pc = kind]
       /\ main_pc' = (IF kind = "done" THEN "client"
                      ELSE IF kind = "failed" THEN "halted" ELSE "crashed")
       /\ UNCHANGED tasks
  ELSE /\ tasks' = Replaced(r, [IdleTask EXCEPT !.pc = kind])
       /\ UNCHANGED <<startup, main_pc>>

\* the runtime drops a spawned task that has ended
TaskEnd(r) ==
  /\ r.pc \in EndPcs
  /\ tasks' = tasks (-) SetToBag({r})
  /\ UNCHANGED <<store_vars, next_album, main_pc, startup, reply, nserved>>
  /\ UNCHANGED reviewer_vars

\* ------------------------------------------------------------------------
\* add_name_to_rotation, one action per await
\* ------------------------------------------------------------------------
\* a task that logs the error of the append and goes on to set_next_album
AppendName_continuing(who, r) ==
  /\ r.pc = "append"
  /\ \/ /\ rotation_col' = Append(rotation_col, r.added_by)
        /\ Update(who, r, [r EXCEPT !.pc = "get_rotation"])
     \/ /\ Update(who, r, [r EXCEPT !.pc = "fetch_albums", !.added_by = <<>>])
        /\ UNCHANGED rotation_col
  /\ UNCHANGED <<catalog, names_col, current, next_album, reply, nserved>>
  /\ UNCHANGED reviewer_vars

AppendName(who, r) ==
  /\ r.pc = "append"
  /\ \/ /\ rotation_col' = Append(rotation_col, r.added_by)
        /\ Update(who, r, [r EXCEPT !.pc = "get_rotation"])
     \/ /\ Exit(who, r, "unwrap_panic")
        /\ UNCHANGED rotation_col
  /\ UNCHANGED <<catalog, names_col, current, next_album, reply, nserved>>
  /\ UNCHANGED reviewer_vars

\* get_rotation, and rotation.insert(name)
GetRotation(who, r) ==
  /\ r.pc = "get_rotation"
  /\ \/ Update(who, r, [r EXCEPT !.pc = "is_full", !.added_by = <<>>,
                                 !.rotation = get_column_strings_as_hashset(rotation_col)
                                                \cup {r.added_by}])
     \/ Exit(who, r, "unwrap_panic")
  /\ UNCHANGED <<store_vars, next_album, reply, nserved>>
  /\ UNCHANGED reviewer_vars

\* IsFullRotation counting the rows of the two columns
IsFullRotation_counting(who, r) ==
  /\ r.pc = "is_full"
  /\ \/ Update(who, r, [r EXCEPT !.rotation = {}, !.pc =
                          IF Len(rotation_col) >= Len(names_col)
                          THEN "clear" ELSE "fetch_albums"])
     \/ Exit(who, r, "unwrap_panic")
  /\ UNCHANGED <<store_vars, next_album, reply, nserved>>
  /\ UNCHANGED reviewer_vars

IsFullRotation(who, r) ==
  /\ r.pc = "is_full"
  /\ \/ Update(who, r, [r EXCEPT !.rotation = {}, !.pc =
                          IF is_full_rotation(r.rotation,
                                              get_column_strings_as_hashset(names_col))
                          THEN "clear" ELSE "fetch_albums"])
     \/ Exit(who, r, "unwrap_panic")
  /\ UNCHANGED <<store_vars, next_album, reply, nserved>>
  /\ UNCHANGED reviewer_vars

ClearRotation(who, r) ==
  /\ r.pc = "clear"
  /\ \/ /\ rotation_col' = <<>>
        /\ Update(who, r, [r EXCEPT !.pc = "fetch_albums"])
     \/ /\ Exit(who, r, "unwrap_panic")
        /\ UNCHANGED rotation_col
  /\ UNCHANGED <<catalog, names_col, current, next_album, reply, nserved>>
  /\ UNCHANGED reviewer_vars

\* ------------------------------------------------------------------------
\* set_next_album = fetch_next_album (fetch_random_album, then the link
\* lookup) and the store under the lock
\* ------------------------------------------------------------------------
\* a set_next_album that computes only into an empty slot
FetchAlbums_if_empty(who, r) ==
  /\ r.pc = "fetch_albums"
  /\ IF next_album.some
     THEN Exit(who, r, "done")
     ELSE \/ /\ Len(catalog) > 0
             /\ Update(who, r, [r EXCEPT !.pc = "fetch_rotation"])
          \/ Exit(who, r, "failed")
  /\ UNCHANGED <<store_vars, next_album, reply, nserved>>
  /\ UNCHANGED reviewer_vars

\* fetch_random_album, first await: the albums range, which has no values
\* when it is empty.  The albums are never written by the bot, so the rows
\* are read from catalog where they are used.
FetchAlbums(who, r) ==
  /\ r.pc = "fetch_albums"
  /\ \/ /\ Len(catalog) > 0
        /\ Update(who, r, [r EXCEPT !.pc = "fetch_rotation"])
     \/ Exit(who, r, "failed")
  /\ UNCHANGED <<store_vars, next_album, reply, nserved>>
  /\ UNCHANGED reviewer_vars

\* fetch_random_album, second await: get_rotation
FetchRotation(who, r) ==
  /\ r.pc = "fetch_rotation"
  /\ \/ Update(who, r, [r EXCEPT !.pc = "fetch_select",
                          !.rotation = get_column_strings_as_hashset(rotation_col)])
     \/ Exit(who, r, "failed")
  /\ UNCHANGED <<store_vars, next_album, reply, nserved>>
  /\ UNCHANGED reviewer_vars

\* get_last_genre_and_added_by, then select_random_album
FetchSelect(who, r) ==
  /\ r.pc = "fetch_select"
  /\ \/ /\ get_last_genre_and_added_by(current).ok
        /\ \E o \in select_random_album(catalog, r.rotation,
                                        get_last_genre_and_added_by(current).genre,
                                        get_last_genre_and_added_by(current).added_by) :
              \/ /\ o.kind = "Ok"
                 /\ Update(who, r, [r EXCEPT !.pc = "store", !.rotation = {},
                                             !.album = o.album])
              \/ /\ o.kind = "Err"
                 /\ Exit(who, r, "failed")
              \/ /\ o.kind = "Panic"
                 /\ Exit(who, r, "range_panic")
     \/ Exit(who, r, "failed")
  /\ UNCHANGED <<store_vars, next_album, reply, nserved>>
  /\ UNCHANGED reviewer_vars

\* the outcomes of Spotify::fetch_album_link: Err, Ok(None), Ok(Some(url))
LookupOutcomes == {"Err", "NotFound", "Found"}

\* a fetch_next_album that returns the error of the lookup
fetch_next_album_strict(album, lookup) ==
  [ok |-> lookup # "Err", album |-> album,
   link |-> IF lookup = "Found" THEN "Some" ELSE "None"]

\* fetch_next_album once fetch_random_album has returned album: the error of
\* the lookup is logged and dropped by .ok(), and the album goes without link
fetch_next_album(album, lookup) ==
  [ok |-> TRUE, album |-> album,
   link |-> IF lookup = "Found" THEN "Some" ELSE "None"]

\* the end of fetch_next_album for an outcome of the lookup, and the insert of
\* set_next_album: no await in between but next_album.lock(), which is free
\* (get_next_album holds it over no await)
Insert(who, r, lookup) ==
  LET res == fetch_next_album(r.album, lookup) IN
  IF res.ok
  THEN /\ next_album' = [some |-> TRUE, album |-> res.album, link |-> res.link]
       /\ nserved' = 0
       /\ Exit(who, r, "done")
  ELSE /\ Exit(who, r, "failed")
       /\ UNCHANGED <<next_album, nserved>>

\* Spotify::fetch_album_link up to its first await: no credentials, or the
\* token request fails, and the lookup has ended in Err; or the token is
\* there and the search is next
RequestToken(who, r) ==
  /\ r.pc = "store"
  /\ \/ /\ Update(who, r, [r EXCEPT !.pc = "search"])
        /\ UNCHANGED <<next_album, nserved>>
     \/ Insert(who, r, "Err")
  /\ UNCHANGED <<store_vars, reply>>
  /\ UNCHANGED reviewer_vars

\* StoreNext recording the contributor when the album is stored
StoreNext_committing(who, r) ==
  /\ r.pc = "search"
  /\ \E lookup \in LookupOutcomes : Insert(who, r, lookup)
  /\ rotation_col' = Append(rotation_col, r.album.added_by)
  /\ UNCHANGED <<catalog, names_col, current, reply>>
  /\ UNCHANGED reviewer_vars

\* Spotify::fetch_album_link from the await of the search, the rest of
\* fetch_next_album, then the insert
StoreNext(who, r) ==
  /\ r.pc = "search"
  /\ \E lookup \in LookupOutcomes : Insert(who, r, lookup)
  /\ UNCHANGED <<store_vars, reply>>
  /\ UNCHANGED reviewer_vars

\* Client::builder(..).await.expect(..): the client is built, or main dies of
\* the panic of expect with the album in the slot
ClientBuild ==
  /\ main_pc = "client"
  /\ main_pc' \in {"starting", "build_panic"}
  /\ UNCHANGED <<store_vars, next_album, startup, tasks, reply, nserved>>
  /\ UNCHANGED reviewer_vars

\* client.start().await: main stays in it while commands are served, or it
\* returns Err at once, which main prints before it returns
ClientStart ==
  /\ main_pc = "starting"
  /\ main_pc' \in {"running", "stopped"}
  /\ UNCHANGED <<store_vars, next_album, startup, tasks, reply, nserved>>
  /\ UNCHANGED reviewer_vars

\* client.start() returns Err while the bot runs: main returns and the
\* runtime is dropped with the tasks and the handlers that are suspended
ClientStop ==
  /\ main_pc = "running"
  /\ main_pc' = "stopped"
  /\ tasks' = EmptyBag
  /\ callers' = [c \in Callers |-> IdleCaller]
  /\ lock_owner' = 0
  /\ UNCHANGED <<store_vars, next_album, startup, reply, nserved>>
  /\ UNCHANGED <<persons, refill, returned>>

\* ------------------------------------------------------------------------
\* The album commands
\* ------------------------------------------------------------------------
PendingAppends == BagCardinality([r \in {x \in Live : x.pc = "append"} |-> tasks[r]])

\* a get_next_album that takes the album out of the slot
GetNextAlbum_taking ==
  /\ main_pc = "running"
  /\ IF ~next_album.some
     THEN /\ reply' = [NoReply EXCEPT !.kind = "booting"]
          /\ UNCHANGED <<tasks, nserved, next_album>>
     ELSE /\ BagCardinality(tasks) < MaxTasks
          /\ Len(rotation_col) + PendingAppends < MaxRotation
          /\ tasks' = tasks (+) SetToBag({[IdleTask EXCEPT
                                             !.pc = "append",
                                             !.added_by = added_by_of(next_album.album)]})
          /\ reply' = [kind |-> "album", name |-> next_album.album.added_by]
          /\ nserved' = Min(nserved + 1, 2)
          /\ next_album' = NoneAlbum
  /\ UNCHANGED <<store_vars, main_pc, startup>>
  /\ UNCHANGED reviewer_vars

GetNextAlbum ==
  /\ main_pc = "running"
  /\ IF ~next_album.some
     THEN /\ reply' = [NoReply EXCEPT !.kind = "booting"]
          /\ UNCHANGED <<tasks, nserved>>
     ELSE /\ BagCardinality(tasks) < MaxTasks
          /\ Len(rotation_col) + PendingAppends < MaxRotation
          /\ tasks' = tasks (+) SetToBag({[IdleTask EXCEPT
                                             !.pc = "append",
                                             !.added_by = added_by_of(next_album.album)]})
          /\ reply' = [kind |-> "album", name |-> next_album.album.added_by]
          /\ nserved' = Min(nserved + 1, 2)
  /\ UNCHANGED <<store_vars, next_album, main_pc, startup>>
  /\ UNCHANGED reviewer_vars

\* the people keeping the sheet enter a new current album
EnvSetCurrent ==
  /\ main_pc = "running"
  /\ current' \in {c \in Currents : Len(c) = 4} \ {current}
  /\ UNCHANGED <<catalog, rotation_col, names_col, reply>>
  /\ UNCHANGED album_vars
  /\ UNCHANGED reviewer_vars

\* the people keeping the sheet enter a new current album (reviewer inputs)
EnvSetCurrentRev ==
  /\ main_pc = "running"
  /\ current' \in {c \in RevCurrents : Len(c) = 4} \ {current}
  /\ UNCHANGED <<catalog, rotation_col, names_col, reply>>
  /\ UNCHANGED album_vars
  /\ UNCHANGED reviewer_vars

\* ------------------------------------------------------------------------
\* The reviewer commands.  The persons mutex is taken first and held to the
\* return; the reads of the sheet are awaits under the lock.
\* ------------------------------------------------------------------------
\* a "reviewer next" or "reviewer reset" command arrives and asks for the lock
Call(c, op) ==
  /\ main_pc = "running"
  /\ callers[c].pc = "idle"
  /\ callers' = [callers EXCEPT ![c] = [IdleCaller EXCEPT !.pc = "lock", !.op = op]]
  /\ UNCHANGED <<persons, lock_owner, refill, returned, reply>>
  /\ UNCHANGED store_vars
  /\ UNCHANGED album_vars

\* the return of a reviewer command: the guard is dropped
Return(c, r) ==
  /\ callers' = [callers EXCEPT ![c] = IdleCaller]
  /\ lock_owner' = 0
  /\ reply' = r

\* the return of a call that has installed a refill; the callers waiting for
\* the lock have seen a refill made during their call
ReturnInstalled(c, r) ==
  /\ callers' = [d \in Callers |->
                   IF d = c THEN IdleCaller
                   ELSE IF callers[d].pc = "lock"
                        THEN [callers[d] EXCEPT !.overlapped = TRUE]
                        ELSE callers[d]]
  /\ lock_owner' = 0
  /\ reply' = r

\* a get_random_name and a reset_reviewers that start their work without
\* waiting for the persons mutex
Acquire_unlocked(c) ==
  /\ callers[c].pc = "lock"
  /\ IF callers[c].op = "next" /\ Len(persons) # 0
     THEN /\ persons' = remove_0(persons).rest
          /\ returned' = Append(returned, remove_0(persons).front)
          /\ Return(c, [kind |-> "reviewer", name |-> remove_0(persons).front])
     ELSE /\ lock_owner' = c
          /\ callers' = [callers EXCEPT ![c].pc = "get_current"]
          /\ UNCHANGED <<persons, returned, reply>>
  /\ UNCHANGED refill
  /\ UNCHANGED store_vars
  /\ UNCHANGED album_vars

\* persons.lock().await; get_random_name pops at once from a non-empty queue
Acquire(c) ==
  /\ callers[c].pc = "lock"
  /\ lock_owner = 0
  /\ IF callers[c].op = "next" /\ Len(persons) # 0
     THEN /\ persons' = remove_0(persons).rest
          /\ returned' = Append(returned, remove_0(persons).front)
          /\ Return(c, [kind |-> "reviewer", name |-> remove_0(persons).front])
     ELSE /\ lock_owner' = c
          /\ callers' = [callers EXCEPT ![c].pc = "get_current"]
          /\ UNCHANGED <<persons, returned, reply>>
  /\ UNCHANGED refill
  /\ UNCHANGED store_vars
  /\ UNCHANGED album_vars

\* get_current under the lock
GetCurrent(c) ==
  /\ callers[c].pc = "get_current"
  /\ lock_owner = c
  /\ \/ /\ album_from_vec(current, 0).ok
        /\ callers' = [callers EXCEPT ![c].pc = "get_names",
                          ![c].added_by = album_from_vec(current, 0).album.added_by]
        /\ UNCHANGED <<lock_owner, reply>>
     \/ Return(c, [kind |-> "error", name |-> <<>>])
  /\ UNCHANGED <<persons, refill, returned>>
  /\ UNCHANGED store_vars
  /\ UNCHANGED album_vars

\* a refill that empties the queue before it reads the names
GetNames_clearing(c) ==
  /\ callers[c].pc = "get_names"
  /\ lock_owner = c
  /\ \/ \E q \in Orders(eligible_reviewers(get_column_strings_as_hashset(names_col),
                                            callers[c].added_by)) :
          /\ refill' = [kind |-> callers[c].op, added_by |-> callers[c].added_by,
                        installed |-> SeqToSet(q), discarded |-> Len(persons) # 0]
          /\ IF callers[c].op = "reset"
             THEN /\ persons' = q
                  /\ returned' = <<>>
                  /\ ReturnInstalled(c, [kind |-> "reset", name |-> <<>>])
             ELSE IF Len(q) = 0
             THEN /\ persons' = q
                  /\ returned' = <<>>
                  /\ ReturnInstalled(c, [kind |-> "panic", name |-> <<>>])
             ELSE /\ persons' = remove_0(q).rest
                  /\ returned' = <<remove_0(q).front>>
                  /\ ReturnInstalled(c, [kind |-> "reviewer", name |-> remove_0(q).front])
     \/ /\ Return(c, [kind |-> "error", name |-> <<>>])
        /\ persons' = <<>>
        /\ UNCHANGED <<refill, returned>>
  /\ UNCHANGED store_vars
  /\ UNCHANGED album_vars

\* get_names under the lock, the install of the filtered names, and for
\* get_random_name the shuffle and remove(0), which panics on an empty queue
GetNames(c) ==
  /\ callers[c].pc = "get_names"
  /\ lock_owner = c
  /\ \/ \E q \in Orders(eligible_reviewers(get_column_strings_as_hashset(names_col),
                                            callers[c].added_by)) :
          /\ refill' = [kind |-> callers[c].op, added_by |-> callers[c].added_by,
                        installed |-> SeqToSet(q), discarded |-> Len(persons) # 0]
          /\ IF callers[c].op = "reset"
             THEN /\ persons' = q
                  /\ returned' = <<>>
                  /\ ReturnInstalled(c, [kind |-> "reset", name |-> <<>>])
             ELSE IF Len(q) = 0
             THEN /\ persons' = q
                  /\ returned' = <<>>
                  /\ ReturnInstalled(c, [kind |-> "panic", name |-> <<>>])
             ELSE /\ persons' = remove_0(q).rest
                  /\ returned' = <<remove_0(q).front>>
                  /\ ReturnInstalled(c, [kind |-> "reviewer", name |-> remove_0(q).front])
     \/ /\ Return(c, [kind |-> "error", name |-> <<>>])
        /\ UNCHANGED <<persons, refill, returned>>
  /\ UNCHANGED store_vars
  /\ UNCHANGED album_vars

NextStartup ==
  \/ FetchAlbums("main", startup)
  \/ FetchRotation("main", startup)
  \/ FetchSelect("main", startup)
  \/ RequestToken("main", startup)
  \/ StoreNext("main", startup)
  \/ ClientBuild
  \/ ClientStart

NextAlbum ==
  \/ NextStartup
  \/ ClientStop
  \/ GetNextAlbum
  \/ EnvSetCurrent
  \/ \E r \in Live : AppendName("task", r)
  \/ \E r \in Live : GetRotation("task", r)
  \/ \E r \in Live : IsFullRotation("task", r)
  \/ \E r \in Live : ClearRotation("task", r)
  \/ \E r \in Live : FetchAlbums("task", r)
  \/ \E r \in Live : FetchRotation("task", r)
  \/ \E r \in Live : FetchSelect("task", r)
  \/ \E r \in Live : RequestToken("task", r)
  \/ \E r \in Live : StoreNext("task", r)
  \/ \E r \in Live : TaskEnd(r)

Spec == Init /\ [][NextAlbum]_vars

NextReviewer ==
  \/ NextStartup
  \/ ClientStop
  \/ EnvSetCurrentRev
  \/ \E c \in Callers : Call(c, "next")
  \/ \E c \in Callers : Call(c, "reset")
  \/ \E c \in Callers : Acquire(c)
  \/ \E c \in Callers : GetCurrent(c)
  \/ \E c \in Callers : GetNames(c)

InitReviewer == InitWith(RevCatalogs, {<<>>}, RevRosters, RevCurrents)

SpecReviewer == InitReviewer /\ [][NextReviewer]_vars

\* The album commands (Spec, SpecSeq, SpecSelect) and the reviewer commands
\* (SpecReviewer) share no state but the sheet ranges neither of them writes,
\* so each is explored on its own.

\* the selection alone: startup, from any contents of the sheet
InitSelect == InitWith(SelCatalogs, SelRotations, {<<amy, bob>>}, SelCurrents)

SpecSelect == InitSelect /\ [][NextStartup]_vars

\* "next album" asked only when the background work of the last one is over
NextSeq ==
  \/ NextStartup
  \/ ClientStop
  \/ (tasks = EmptyBag /\ GetNextAlbum)
  \/ EnvSetCurrent
  \/ \E r \in Live : AppendName("task", r)
  \/ \E r \in Live : GetRotation("task", r)
  \/ \E r \in Live : IsFullRotation("task", r)
  \/ \E r \in Live : ClearRotation("task", r)
  \/ \E r \in Live : FetchAlbums("task", r)
  \/ \E r \in Live : FetchRotation("task", r)
  \/ \E r \in Live : FetchSelect("task", r)
  \/ \E r \in Live : RequestToken("task", r)
  \/ \E r \in Live : StoreNext("task", r)
  \/ \E r \in Live : TaskEnd(r)

SpecSeq == Init /\ [][NextSeq]_vars

\* The spawned task when the sheet answers every request and the client keeps
\* running: each await of the task completes and the runtime polls the task
\* again, so the steps of the task are taken under weak fairness.
NoStoreFailure == \A r \in Live : r.pc \notin {"failed", "unwrap_panic"}

NextLive ==
  \/ NextStartup
  \/ (tasks = EmptyBag /\ GetNextAlbum)
  \/ EnvSetCurrent
  \/ \E r \in Live : AppendName("task", r) /\ NoStoreFailure'
  \/ \E r \in Live : GetRotation("task", r) /\ NoStoreFailure'
  \/ \E r \in Live : IsFullRotation("task", r) /\ NoStoreFailure'
  \/ \E r \in Live : ClearRotation("task", r) /\ NoStoreFailure'
  \/ \E r \in Live : FetchAlbums("task", r) /\ NoStoreFailure'
  \/ \E r \in Live : FetchRotation("task", r) /\ NoStoreFailure'
  \/ \E r \in Live : FetchSelect("task", r) /\ NoStoreFailure'
  \/ \E r \in Live : RequestToken("task", r) /\ NoStoreFailure'
  \/ \E r \in Live : StoreNext("task", r) /\ NoStoreFailure'
  \/ \E r \in Live : TaskEnd(r)

TaskProgress ==
  \E r \in Live :
    /\ \/ AppendName("task", r)
       \/ GetRotation("task", r)
       \/ IsFullRotation("task", r)
       \/ ClearRotation("task", r)
       \/ FetchAlbums("task", r)
       \/ FetchRotation("task", r)
       \/ FetchSelect("task", r)
       \/ RequestToken("task", r)
       \/ StoreNext("task", r)
    /\ NoStoreFailure'

SpecLive == Init /\ [][NextLive]_vars /\ WF_vars(TaskProgress)

\* ------------------------------------------------------------------------
\* Properties
\* ------------------------------------------------------------------------
Roster == SeqToSet(names_col)

Rotation == SeqToSet(rotation_col)

Last == get_last_genre_and_added_by(current)

RowAlbum(cat, i) ==
  [name |-> cat[i][2], artist |-> cat[i][1], genre |-> cat[i][3],
   added_by |-> cat[i][4], row |-> i - 1]

WellFormed(cat) == \A i \in 1..Len(cat) : Len(cat[i]) = 4

\* the rows that pass the three exclusions
Survivors(cat, rot, last_genre, last_added_by) ==
  {RowAlbum(cat, i) : i \in {j \in 1..Len(cat) :
       /\ Len(cat[j]) = 4
       /\ cat[j][4] \notin rot
       /\ to_lowercase(cat[j][3]) # to_lowercase(last_genre)
       /\ to_lowercase(cat[j][4]) # to_lowercase(last_added_by)}}

OkAlbums(outcomes) == {o.album : o \in {x \in outcomes : x.kind = "Ok"}}

\* C1: the albums the selection can return are exactly the rows of the
\* catalog (of four-cell rows) whose contributor is not in the rotation, whose
\* genre differs from the last genre and whose contributor differs from the
\* last contributor, both without regard to case; the album selected, and
\* then stored, is one of them
C1_SelectReturnsExactlySurvivors ==
  LET surv == Survivors(catalog, Rotation, Last.genre, Last.added_by)
      outs == select_random_album(catalog, startup.rotation, Last.genre, Last.added_by)
  IN  /\ (startup.pc = "fetch_select" /\ Last.ok) =>
            /\ OkAlbums(outs) \subseteq surv
            /\ WellFormed(catalog) => OkAlbums(outs) = surv
      /\ startup.pc = "store" => startup.album \in surv
      /\ main_pc = "client" => (next_album.some /\ next_album.album \in surv)

C1_Witness ==
  /\ startup.pc = "store"
  /\ Len(catalog) = 2
  /\ rotation_col # <<>>
  /\ Survivors(catalog, Rotation, Last.genre, Last.added_by) = {startup.album}
  /\ to_lowercase(catalog[1][4]) = to_lowercase(Last.added_by)
  /\ catalog[1][4] # Last.added_by

\* C2: a selection that finds no eligible row ends in an error returned to
\* the caller: neither main nor a background task dies of a panic of the
\* selection
C2_NoEligibleIsAnError ==
  /\ main_pc # "crashed"
  /\ \A r \in Live : r.pc # "range_panic"

\* C3: the value in the prefetch slot is returned by at most one "next
\* album" request
C3_ConsumedOnce == nserved <= 1

\* C4: the rotation column changes only by the append of a background task
\* for the contributor of the album its "next album" request returned, or by
\* that task's clear; set_next_album leaves it alone, and a request answered
\* with the placeholder starts no task
C4_RotationWrittenOnlyForServed ==
  [][ /\ startup' # startup => rotation_col' = rotation_col
      /\ next_album' # next_album => rotation_col' = rotation_col
      /\ \A r \in Live : \A r2 \in BagToSet(tasks') :
            (r.pc \in {"fetch_albums", "fetch_rotation", "fetch_select", "store", "search"}
               /\ r2 # r
               /\ tasks' = Replaced(r, r2))
            => rotation_col' = rotation_col
      /\ rotation_col' # rotation_col =>
            \E r \in Live :
               \/ /\ r.pc = "append"
                  /\ rotation_col' = Append(rotation_col, r.added_by)
                  /\ tasks' = Replaced(r, [r EXCEPT !.pc = "get_rotation"])
               \/ /\ r.pc = "clear"
                  /\ rotation_col' = <<>>
                  /\ tasks' = Replaced(r, [r EXCEPT !.pc = "fetch_albums"])
      /\ BagCardinality(tasks') > BagCardinality(tasks) =>
            /\ next_album.some
            /\ reply' = [kind |-> "album", name |-> next_album.album.added_by]
            /\ tasks' = tasks (+) SetToBag({[IdleTask EXCEPT
                                               !.pc = "append",
                                               !.added_by = next_album.album.added_by]})
      /\ (reply'.kind = "booting" \/ ~next_album.some) => tasks' = tasks
    ]_vars

C4_Witness ==
  /\ rotation_col # <<>>
  /\ reply.kind = "album"
  /\ reply.name \in Rotation
  /\ \E r \in Live : r.pc = "store" /\ r.album.added_by \notin Rotation

\* C5: without interference add_name_to_rotation appends the name, and then
\* clears the column if and only if every roster member is in the column with
\* the name appended; it clears once, and otherwise leaves the column as
\* appended
C5_RecordAppendsThenClearsIffFull ==
  [][ \A r \in Live :
        /\ (r.pc = "append" /\ tasks' = Replaced(r, [r EXCEPT !.pc = "get_rotation"]))
             => rotation_col' = Append(rotation_col, r.added_by)
        /\ (r.pc = "get_rotation" /\ \E r2 \in BagToSet(tasks') :
                                        r2.pc = "is_full" /\ tasks' = Replaced(r, r2))
             => /\ rotation_col' = rotation_col
                /\ rotation_col # <<>>
                /\ rotation_col[Len(rotation_col)] = r.added_by
        /\ (r.pc = "is_full" /\ tasks' = Replaced(r, [r EXCEPT !.pc = "clear",
                                                               !.rotation = {}]))
             => /\ Roster \subseteq Rotation
                /\ rotation_col' = rotation_col
        /\ (r.pc = "is_full" /\ tasks' = Replaced(r, [r EXCEPT !.pc = "fetch_albums",
                                                               !.rotation = {}]))
             => /\ ~(Roster \subseteq Rotation)
                /\ rotation_col' = rotation_col
        /\ (r.pc = "clear" /\ tasks' = Replaced(r, [r EXCEPT !.pc = "fetch_albums"]))
             => /\ rotation_col # <<>>
                /\ rotation_col' = <<>>
    ]_vars

C5_Witness ==
  /\ Cardinality(Roster) = 2
  /\ rotation_col = <<>>
  /\ \E r \in Live : r.pc = "fetch_albums"

\* C6: a name already in the column counts once: when add_name_to_rotation
\* appends a name the column already held, it goes on to clear only if the
\* column was full before, so repeating a name never fills the rotation and
\* never resets it a second time
C6_DuplicateCountsOnce ==
  \A r \in Live :
    (r.pc = "clear" /\ rotation_col # <<>>) =>
       LET n == Len(rotation_col)
           before == SeqToSet(SubSeq(rotation_col, 1, n - 1))
       IN  rotation_col[n] \in before => Roster \subseteq before

C6_Witness ==
  /\ Cardinality(Roster) = 2
  /\ Len(rotation_col) = 2
  /\ rotation_col[1] = rotation_col[2]
  /\ \E r \in Live : r.pc = "fetch_albums"

\* C7: a clear is issued once per filling: no task clears a column that
\* another task has cleared since the last append
C7_ClearOncePerFilling ==
  [][ \A r \in Live :
        (r.pc = "clear" /\ tasks' = Replaced(r, [r EXCEPT !.pc = "fetch_albums"]))
          => rotation_col # <<>>
    ]_vars

CatalogContributors == {catalog[i][4] : i \in {j \in 1..Len(catalog) : Len(catalog[j]) = 4}}

\* C8 as stated: every member of the rotation is a member of the roster
C8_RotationWithinRoster == Rotation \subseteq Roster

\* C8: when every contributor of the catalog is a roster member, every
\* member of the rotation is a member of the roster
C8_RotationWithinRosterOfCatalog ==
  CatalogContributors \subseteq Roster => Rotation \subseteq Roster

C8_Witness ==
  /\ CatalogContributors \subseteq Roster
  /\ Len(rotation_col) >= 2
  /\ rotation_col[1] # rotation_col[2]

NoDuplicates(q) == \A i, j \in 1..Len(q) : q[i] = q[j] => i = j

\* C9: the queue a refill or a reset installs is the roster without the
\* contributor of the current album as that call read it, so neither the
\* names left in the queue nor the names popped from it since are that
\* contributor
C9_RefillExcludesCurrentContributor ==
  refill.kind # "none" =>
     /\ refill.installed = Roster \ {refill.added_by}
     /\ refill.added_by \notin SeqToSet(persons)
     /\ refill.added_by \notin SeqToSet(returned)
     /\ (reply.kind = "reviewer" /\ returned # <<>>) => reply.name # refill.added_by

C9_Witness ==
  /\ refill.kind = "next"
  /\ refill.added_by \in Roster
  /\ reply.kind = "reviewer"
  /\ Len(returned) = 2

\* C10: the names popped since the last install of the queue and the names
\* still queued are, without repeats, the roster members other than the
\* contributor read by that install, whatever the queue held before: when the
\* queue has run empty every eligible name has been returned exactly once
C10_EachEligibleNameOnce ==
  refill.kind # "none" =>
     /\ NoDuplicates(returned \o persons)
     /\ SeqToSet(returned \o persons) = Roster \ {refill.added_by}
     /\ persons = <<>> => /\ SeqToSet(returned) = Roster \ {refill.added_by}
                          /\ Len(returned) = Cardinality(Roster \ {refill.added_by})

C10_Witness ==
  /\ refill.kind = "reset"
  /\ refill.discarded
  /\ refill.added_by \in Roster
  /\ persons = <<>>
  /\ Len(returned) = 2

\* C11: get_random_name returns a name whenever the current album and the
\* roster can be read: a "reviewer next" command never dies of a panic
C11_NextReviewerNeverPanics == reply.kind # "panic"

\* a caller past persons.lock().await, doing the reads of a refill
Refilling(c) == callers[c].pc \in {"get_current", "get_names"}

\* C12 (as stated): the persons mutex serialises the reviewer commands, and
\* of two concurrent callers never both trigger a refill: a call that waited
\* for the lock while another call installed a refill does not refill
C12_NoTwoConcurrentRefills ==
  /\ \A c \in Callers : Refilling(c) => lock_owner = c
  /\ \A c \in Callers : callers[c].overlapped => ~Refilling(c)

\* C12 (amended): reviewer commands are serialised by the persons mutex,
\* held across the reads: only the holder of the lock is ever between the
\* emptiness test and the install, and the queue a get_random_name found
\* empty is still empty when it installs.  A call that waited during a
\* refill of another call refills only after it has the lock, and a
\* get_random_name does so only when the queue is empty again
C12_CallsSerialised ==
  /\ \A c \in Callers : Refilling(c) => lock_owner = c
  /\ lock_owner # 0 => Refilling(lock_owner)
  /\ Cardinality({c \in Callers : Refilling(c)}) <= 1
  /\ \A c \in Callers : Refilling(c) /\ callers[c].op = "next" => persons = <<>>

C12_Witness ==
  \E c, d \in Callers :
    /\ c # d
    /\ callers[c].pc = "get_names" /\ callers[c].op = "next" /\ callers[c].overlapped
    /\ persons = <<>> /\ Len(returned) = 1
    /\ callers[d].pc = "lock" /\ callers[d].op = "next"

\* C13: a failure of the sheet inside the spawned task (in
\* add_name_to_rotation or in set_next_album) is logged and absorbed: the
\* task never ends by a panic
C13_BackgroundFailureAbsorbed == \A r \in Live : r.pc # "unwrap_panic"

\* C14: main awaits set_next_album before it builds and starts the client:
\* the client is started only with an album in the slot, a startup that
\* failed stays halted, and no command is answered by a halted bot
C14_ClientStartsOnlyWithAlbum ==
  [][/\ main_pc' \in {"client", "starting", "running"} => next_album'.some
     /\ main_pc \in {"halted", "crashed"} => main_pc' = main_pc /\ ~next_album'.some
     /\ main_pc \in {"build_panic", "stopped"} => main_pc' = main_pc
     /\ reply' # reply => main_pc = "running"]_vars

C14_Witness == main_pc = "halted" /\ startup.pc = "failed" /\ ~next_album.some

\* C15: once the selection has returned an album, set_next_album stores it
\* whatever the lookup of the link does: an error of the lookup or a search
\* without hit gives the album without link, never a failure
C15_StoredWithoutLink ==
  [][/\ \A r \in Live \cup {startup} : r.pc \in {"store", "search"} =>
           \A l \in {"Err", "NotFound"} :
              fetch_next_album(r.album, l) = [ok |-> TRUE, album |-> r.album, link |-> "None"]
     /\ startup.pc \in {"store", "search"} /\ startup' # startup =>
           \/ startup.pc = "store" /\ startup' = [startup EXCEPT !.pc = "search"]
                                   /\ next_album' = next_album
           \/ /\ startup'.pc = "done"
              /\ next_album'.some /\ next_album'.album = startup.album
     /\ \A r \in Live : (/\ r.pc \in {"store", "search"}
                         /\ main_pc' = "running"
                         /\ CopiesIn(r, tasks') < CopiesIn(r, tasks)) =>
           \/ r.pc = "store" /\ tasks' = Replaced(r, [r EXCEPT !.pc = "search"])
                             /\ next_album' = next_album
           \/ /\ CopiesIn([IdleTask EXCEPT !.pc = "done"], tasks')
                   > CopiesIn([IdleTask EXCEPT !.pc = "done"], tasks)
              /\ next_album'.some /\ next_album'.album = r.album]_vars

C15_Witness ==
  /\ main_pc = "running"
  /\ next_album.some /\ next_album.link = "None"
  /\ \E r \in Live : r.pc = "done"

\* the steps of add_name_to_rotation and those of set_next_album
RecordPcs == {"append", "get_rotation", "is_full", "clear"}
ComputePcs == {"fetch_albums", "fetch_rotation", "fetch_select", "store", "search"}

\* C16: in the spawned task add_name_to_rotation has returned Ok before
\* set_next_album starts, so the rotation the selection reads holds the
\* contributor just served (or was cleared by this task because it was
\* full); a task whose add_name_to_rotation fails never runs set_next_album
C16_RecordBeforeCompute ==
  [][\A r \in Live : \A r2 \in BagToSet(tasks') : r # r2 =>
       /\ r2.pc = "fetch_albums" => r.pc \in {"is_full", "clear"}
       /\ r2.pc \in (ComputePcs \cup {"done", "failed", "range_panic"}) \ {"fetch_albums"}
            => r.pc \in ComputePcs
       /\ r2.pc = "unwrap_panic" => r.pc \in RecordPcs
       /\ r.pc \in EndPcs => FALSE
       /\ r2.pc = "fetch_select" =>
            /\ r2.rotation = Rotation
            /\ rotation_col = <<>> \/ reply.name \in r2.rotation
       /\ r2.pc = "store" =>
            rotation_col = <<>> \/ r2.album.added_by # reply.name]_vars

C16_Witness ==
  \E r \in Live :
    /\ r.pc = "store"
    /\ reply.kind = "album" /\ reply.name \in Rotation
    /\ r.album.added_by # reply.name

\* C17: when the sheet answers and the selection has an eligible album,
\* every "next album" command that returned an album (its task is spawned
\* and the reply is out) is followed by an insert into the slot made by the
\* set_next_album of that task
C17_EventuallyRepopulated ==
  ((\E r \in Live : r.pc = "append") /\ reply.kind = "album")
    ~> (\/ /\ \E r \in Live : r.pc = "done"
           /\ next_album.some
           /\ nserved = 0
        \/ \E r \in Live : r.pc = "range_panic")

C17_Witness ==
  /\ main_pc = "running"
  /\ reply.kind = "album"
  /\ \E r \in Live : r.pc = "done"
  /\ next_album.some /\ nserved = 0

\* two strings that are equal up to the case of their letters, blanks counted
SameLetters(a, b) ==
  /\ Len(a) = Len(b)
  /\ \A i \in 1..Len(a) : LowerChar(a[i]) = LowerChar(b[i])

\* C18 (as stated): the selection compares the contributor of a row with the
\* members of the rotation, its genre with the last genre and its contributor
\* with the last contributor without regard to case and without trimming
C18_AllComparisonsIgnoreCase ==
  (startup.pc = "fetch_select" /\ Last.ok /\ WellFormed(catalog)) =>
    \A i \in 1..Len(catalog) :
      RowAlbum(catalog, i) \in
          OkAlbums(select_random_album(catalog, startup.rotation, Last.genre, Last.added_by))
        <=> /\ \A n \in Rotation : ~SameLetters(catalog[i][4], n)
            /\ ~SameLetters(catalog[i][3], Last.genre)
            /\ ~SameLetters(catalog[i][4], Last.added_by)

\* C18 (amended): the genre against the last genre and the contributor
\* against the last contributor are compared without regard to case; the
\* contributor against the rotation is an exact membership, case included;
\* nothing is trimmed
C18_RotationExactOthersIgnoreCase ==
  (startup.pc = "fetch_select" /\ Last.ok /\ WellFormed(catalog)) =>
    \A i \in 1..Len(catalog) :
      RowAlbum(catalog, i) \in
          OkAlbums(select_random_album(catalog, startup.rotation, Last.genre, Last.added_by))
        <=> /\ \A n \in Rotation : catalog[i][4] # n
            /\ ~SameLetters(catalog[i][3], Last.genre)
            /\ ~SameLetters(catalog[i][4], Last.added_by)

C18_Witness ==
  /\ startup.pc = "fetch_select" /\ Last.ok /\ WellFormed(catalog)
  /\ Len(catalog) = 2
  /\ catalog[1][4] = Amy /\ amy \in Rotation /\ Amy \notin Rotation
  /\ catalog[2][4] = amySp /\ SameLetters(Last.added_by, amy)
  /\ OkAlbums(select_random_album(catalog, startup.rotation, Last.genre, Last.added_by))
       = {RowAlbum(catalog, 2)}

\* C19: a catalog row of fewer than four cells, the empty row included, makes
\* album_from_vec return an error that select_random_album returns to its
\* caller: the row is not skipped, nothing panics, and no album is selected
\* even when other rows pass the filter
C19_MalformedRowFailsFast ==
  /\ \A i \in 1..Len(catalog) : Len(catalog[i]) < 4 =>
        /\ ~album_from_vec(catalog[i], i - 1).ok
        /\ album_from_vec(catalog[i], i - 1).err # ""
  /\ (startup.pc = "fetch_select" /\ Last.ok /\ ~WellFormed(catalog)) =>
        select_random_album(catalog, startup.rotation, Last.genre, Last.added_by)
          = {[kind |-> "Err", album |-> NoAlbum]}
  /\ ~WellFormed(catalog) =>
        /\ startup.pc \notin {"store", "done", "range_panic"}
        /\ main_pc \in {"init", "halted"}
        /\ ~next_album.some

C19_Witness ==
  /\ main_pc = "halted" /\ startup.pc = "failed"
  /\ Last.ok
  /\ Len(catalog) = 2 /\ Len(catalog[1]) = 0
  /\ Survivors(catalog, Rotation, Last.genre, Last.added_by) # {}

\* C20: once main has stored the first album, the slot holds an album in
\* every state, whatever the commands and the background tasks do, failing
\* tasks included: no command is answered with the placeholder
C20_SlotNeverEmptyAfterStartup ==
  /\ main_pc \in {"client", "starting", "running", "stopped", "build_panic"}
       => next_album.some
  /\ reply.kind # "booting"

C20_Witness ==
  /\ main_pc = "running"
  /\ reply.kind = "album" /\ nserved = 2
  /\ \E r \in Live : r.pc \in {"failed", "unwrap_panic", "range_panic"}
  /\ next_album.some

\* C21: whenever a "next album" command returns an album (the step that
\* spawns the background task), the contributor of that album is not in the
\* rotation column as it stands at that moment
C21_ServedContributorNotInRotation ==
  [][BagCardinality(tasks') > BagCardinality(tasks) =>
        /\ reply'.kind = "album"
        /\ reply'.name = next_album.album.added_by
        /\ next_album.album.added_by \notin Rotation]_vars

\* C22: a reset_reviewers or a refill of get_random_name whose read of the
\* current album or of the names fails returns the error with the queue as
\* it was when the call took the lock: nothing is installed, nothing is
\* popped, and the lock is released for the callers that wait
C22_FailedRefillLeavesQueue ==
  [][/\ (\E c \in Callers : Refilling(c) /\ callers'[c] = IdleCaller
                              /\ reply'.kind = "error") =>
           /\ persons' = persons
           /\ returned' = returned
           /\ refill' = refill
           /\ lock_owner' = 0
     /\ (lock_owner # 0 /\ lock_owner' = lock_owner) => persons' = persons]_vars

C22_Witness ==
  /\ reply.kind = "error"
  /\ Len(persons) > 0
  /\ refill.kind # "none"
  /\ lock_owner = 0
  /\ \E c \in Callers : callers[c].pc = "lock"

====
